---- MODULE Spec2Model ----
(***************************************************************************)
(* VCMFrameBuffer (src/modules/video_coding/main/source/frame_buffer.cc):  *)
(* one encoded video frame being assembled from transport packets.         *)
(*                                                                         *)
(* The frame buffer's own code is translated from frame_buffer.cc.  Two    *)
(* collaborators live in files that are not part of the source tree at     *)
(* hand and are modelled from the written specification (sections 3, 4.2,  *)
(* 4.3, 4.5 and 6): the packet-list delegate VCMSessionInfo (the Session*  *)
(* operators) and the encoded-frame base VCMEncodedFrame (VerifyAndAllocate*)
(* and EncodedFrameReset), together with the three size constants.         *)
(*                                                                         *)
(* Sizes are scaled down: the step, the maximum and the start-code length  *)
(* keep their order (start code < step < maximum, maximum not a multiple   *)
(* of the step).  WebRtc_UWord32 arithmetic is kept modulo WordModulus, a  *)
(* scaled word far above every other quantity of the model.                *)
(***************************************************************************)
EXTENDS Integers, Sequences, FiniteSets, TLC

VARIABLES
    _state,              \* VCMFrameBufferStateEnum
    _nackCount,          \* WebRtc_Word16
    _latestPacketTimeMs, \* WebRtc_Word64, -1 when unset
    _sessionInfo,        \* VCMSessionInfo (delegate)
    _length,             \* VCMEncodedFrame: bytes occupied
    _size,               \* VCMEncodedFrame: bytes allocated (capacity)
    _buffer,             \* VCMEncodedFrame: the bytes, Len(_buffer) = _size
    _timeStamp,          \* VCMEncodedFrame
    _payloadType,        \* VCMEncodedFrame
    _codec,              \* VCMEncodedFrame
    _frameType,          \* VCMEncodedFrame
    _completeFrame,      \* VCMEncodedFrame
    _missingFrame,       \* VCMEncodedFrame
    _renderTimeMs,       \* VCMEncodedFrame
    _encodedWidth,       \* VCMEncodedFrame
    _encodedHeight,      \* VCMEncodedFrame
    NDEBUG,              \* the build: TRUE when assert() is compiled out
    aborted              \* a failed assert() ended the program

frame == <<_state, _nackCount, _latestPacketTimeMs, _sessionInfo, _length,
           _size, _buffer, _timeStamp, _payloadType, _codec, _frameType,
           _completeFrame, _missingFrame, _renderTimeMs, _encodedWidth,
           _encodedHeight>>

vars == <<_state, _nackCount, _latestPacketTimeMs, _sessionInfo, _length,
          _size, _buffer, _timeStamp, _payloadType, _codec, _frameType,
          _completeFrame, _missingFrame, _renderTimeMs, _encodedWidth,
          _encodedHeight, NDEBUG, aborted>>

----------------------------------------------------------------------------
(* Bounds of the model *)

MaxSeqNum == 3
MaxPacketSize == 2
MaxTimeStamp == 1
MaxTimeMs == 1
MaxNackCount == 1
MaxPayloadSize == 11
MaxSeqNumStored == 1

(* Size constants (jitter_buffer_common.h; scaled) *)

kMaxJBFrameSizeBytes == 10
kBufferIncStepSizeBytes == 4
kH264StartCodeLengthBytes == 1

WordModulus == 2^16

UWord32(x) == x % WordModulus

----------------------------------------------------------------------------
(* Enumerations *)

kStateFree == "kStateFree"
kStateEmpty == "kStateEmpty"
kStateIncomplete == "kStateIncomplete"
kStateComplete == "kStateComplete"
kStateDecoding == "kStateDecoding"
kStateDecodable == "kStateDecodable"
kStateInvalid == "kStateInvalid"

FrameBufferStates ==
    {kStateFree, kStateEmpty, kStateIncomplete, kStateComplete,
     kStateDecoding, kStateDecodable}

kIncomplete == "kIncomplete"
kCompleteSession == "kCompleteSession"
kDuplicatePacket == "kDuplicatePacket"
kTimeStampError == "kTimeStampError"
kSizeError == "kSizeError"
kStateError == "kStateError"

VCM_OK == "VCM_OK"
VCM_MEMORY == "VCM_MEMORY"

kFrameEmpty == "kFrameEmpty"
kVideoFrameKey == "kVideoFrameKey"
kVideoFrameDelta == "kVideoFrameDelta"

FrameTypes == {kFrameEmpty, kVideoFrameKey, kVideoFrameDelta}

kNoFault == "kNoFault"
kAllocationFails == "kAllocationFails"
kDelegateFails == "kDelegateFails"

Faults == {kNoFault, kAllocationFails, kDelegateFails}

NULL == "NULL"
DATA == "DATA"

kVideoCodecUnknown == "kVideoCodecUnknown"
kVideoCodecH264 == "kVideoCodecH264"

None == "None"

----------------------------------------------------------------------------
(* Inputs *)

SeqNums == 1..MaxSeqNum
TimeStamps == 0..MaxTimeStamp
Times == 1..MaxTimeMs

PayloadTypes == {96}
Codecs == {kVideoCodecH264}

(* Media packets carry a payload pointer and may end the frame or ask for a
   start code; control packets (kFrameEmpty) do neither and may come without
   a payload pointer. *)
MediaPacketsIn ==
    [seqNum : SeqNums, timestamp : TimeStamps, sizeBytes : {MaxPacketSize},
     insertStartCode : BOOLEAN, frameType : {kVideoFrameDelta},
     dataPtr : {DATA}, markerBit : BOOLEAN, payloadType : PayloadTypes,
     codec : Codecs]

ControlPacketsIn ==
    {p \in [seqNum : SeqNums, timestamp : TimeStamps,
            sizeBytes : {0, MaxPacketSize}, insertStartCode : {FALSE},
            frameType : {kFrameEmpty}, dataPtr : {NULL, DATA},
            markerBit : {FALSE}, payloadType : PayloadTypes, codec : Codecs] :
        p.dataPtr = DATA => p.sizeBytes = 0}

Packets == MediaPacketsIn \cup ControlPacketsIn

(* The packets offered where frames are also loaded from storage *)
PacketsStored == {p \in Packets : p.seqNum <= MaxSeqNumStored}

StoredFrames ==
    [payloadSize : {1, MaxPayloadSize}, timeStamp : {MaxTimeStamp},
     frameType : {kVideoFrameKey}, missingFrame : {TRUE},
     completeFrame : {TRUE}, renderTimeMs : {MaxTimeMs},
     payloadType : PayloadTypes, codec : Codecs,
     encodedWidth : {4}, encodedHeight : {3}]

(* Bytes of the buffer, by origin *)
Unwritten == <<"unwritten", 0>>
StartCodeByte == <<"startcode", 0>>
StorageByte == <<"stored", 0>>
PayloadByte(seqNum) == <<"payload", seqNum>>

----------------------------------------------------------------------------
(* Packet-list delegate, VCMSessionInfo *)

EmptySession == [packets |-> {}, haveLastPacket |-> FALSE, startSeqNum |-> -1]

SessionReset(si) == EmptySession

HaveStartSeqNumber(si) == si.startSeqNum # -1

SetStartSeqNumber(si, seqNum) == [si EXCEPT !.startSeqNum = seqNum]

PacketRecord(packet) ==
    [seqNum |-> packet.seqNum, sizeBytes |-> packet.sizeBytes,
     insertStartCode |-> packet.insertStartCode,
     frameType |-> packet.frameType]

StartCodeBytes(packet) ==
    IF packet.insertStartCode THEN kH264StartCodeLengthBytes ELSE 0

BytesWritten(p) ==
    IF p.frameType = kFrameEmpty THEN 0 ELSE p.sizeBytes + StartCodeBytes(p)

MediaPackets(si) == {p \in si.packets : p.frameType # kFrameEmpty}

MediaSeqNums(si) == {p.seqNum : p \in MediaPackets(si)}

Lowest(S) == CHOOSE x \in S : \A y \in S : x <= y
Highest(S) == CHOOSE x \in S : \A y \in S : x >= y

RECURSIVE SessionLayoutFrom(_, _)
SessionLayoutFrom(si, seqNum) ==
    IF seqNum > MaxSeqNum + 1 THEN <<>>
    ELSE LET here == {p \in MediaPackets(si) : p.seqNum = seqNum}
             chunk == IF here = {} THEN <<>>
                      ELSE LET p == CHOOSE q \in here : TRUE
                           IN  [i \in 1..StartCodeBytes(p) |-> StartCodeByte]
                               \o [i \in 1..p.sizeBytes |-> PayloadByte(p.seqNum)]
         IN  chunk \o SessionLayoutFrom(si, seqNum + 1)

SessionLayout(si) == SessionLayoutFrom(si, 1)

SessionLength(si) == Len(SessionLayout(si))

(* The session's bytes laid out from the start of the buffer; what lies
   beyond them is not content and is kept as Unwritten. *)
SessionWrite(si, buffer) ==
    LET layout == SessionLayout(si)
        n == Len(layout)
    IN  [i \in 1..Len(buffer) |-> IF i <= n THEN layout[i] ELSE Unwritten]

IsSessionComplete(si) ==
    /\ si.haveLastPacket
    /\ MediaSeqNums(si) # {}
    /\ \A s \in Lowest(MediaSeqNums(si))..Highest(MediaSeqNums(si)) :
          s \in MediaSeqNums(si)

SessionFrameType(si) ==
    IF MediaPackets(si) = {} THEN kFrameEmpty
    ELSE (CHOOSE p \in MediaPackets(si) :
             p.seqNum = Lowest(MediaSeqNums(si))).frameType

SessionInsertPacket(si, packet, buffer, delegateOk) ==
    IF ~delegateOk
    THEN [retVal |-> -1, sessionInfo |-> si, buffer |-> buffer]
    ELSE IF \E q \in si.packets : q.seqNum = packet.seqNum
    THEN [retVal |-> -2, sessionInfo |-> si, buffer |-> buffer]
    ELSE LET next == [si EXCEPT
                        !.packets = @ \cup {PacketRecord(packet)},
                        !.haveLastPacket =
                            @ \/ (packet.markerBit
                                  /\ packet.frameType # kFrameEmpty)]
         IN  [retVal |-> BytesWritten(packet), sessionInfo |-> next,
              buffer |-> SessionWrite(next, buffer)]

SessionForceSetHaveLastPacket(si) == [si EXCEPT !.haveLastPacket = TRUE]

Decodable(si) ==
    {p \in MediaPackets(si) :
        \A s \in Lowest(MediaSeqNums(si))..p.seqNum : s \in MediaSeqNums(si)}

SessionMakeSessionDecodable(si, buffer) ==
    LET next == [si EXCEPT !.packets = {p \in @ : p.frameType = kFrameEmpty}
                                       \cup Decodable(si)]
    IN  [retVal |-> SessionLength(si) - SessionLength(next),
         sessionInfo |-> next, buffer |-> SessionWrite(next, buffer)]

SessionPrepareForDecode(si, buffer) ==
    [retVal |-> SessionLength(si), buffer |-> SessionWrite(si, buffer)]

----------------------------------------------------------------------------
(* Encoded-frame base, VCMEncodedFrame *)

Fresh(n) == [i \in 1..n |-> Unwritten]

VerifyAndAllocate(buffer, minimumSize, allocOk) ==
    IF minimumSize <= Len(buffer) THEN [status |-> 0, buffer |-> buffer]
    ELSE IF ~allocOk THEN [status |-> -1, buffer |-> buffer]
    ELSE [status |-> 0,
          buffer |-> buffer \o Fresh(minimumSize - Len(buffer))]

ConvertFrameType(frameType) ==
    IF frameType = kVideoFrameKey THEN "kKeyFrame" ELSE "kDeltaFrame"

EncodedFrameReset ==
    /\ _renderTimeMs' = -1
    /\ _frameType' = "kDeltaFrame"
    /\ _encodedWidth' = 0
    /\ _encodedHeight' = 0
    /\ _completeFrame' = FALSE
    /\ _missingFrame' = FALSE
    /\ _codec' = kVideoCodecUnknown
    /\ _buffer' = <<>>
    /\ _size' = 0

----------------------------------------------------------------------------
(* VCMFrameBuffer *)

Init ==
    /\ _state = kStateFree
    /\ _nackCount = 0
    /\ _latestPacketTimeMs = -1
    /\ _sessionInfo = EmptySession
    /\ _length = 0
    /\ _size = 0
    /\ _buffer = <<>>
    /\ _timeStamp = 0
    /\ _payloadType = 0
    /\ _codec = kVideoCodecUnknown
    /\ _frameType = "kDeltaFrame"
    /\ _completeFrame = FALSE
    /\ _missingFrame = FALSE
    /\ _renderTimeMs = -1
    /\ _encodedWidth = 0
    /\ _encodedHeight = 0
    /\ NDEBUG \in BOOLEAN
    /\ aborted = FALSE

(* StateCheck without the test for kStateFree *)
StateCheck_IgnoresFree(state) ==
    IF state = kStateDecoding THEN kIncomplete ELSE None

(* frame_buffer.cc:86-96: the return value of a call refused for the frame's
   state, None when the call goes on *)
StateCheck(state) ==
    IF state = kStateDecoding THEN kIncomplete
    ELSE IF state = kStateFree THEN kStateError
    ELSE None

(* TimeStampMismatch without the comparison *)
TimeStampMismatch_Never(timeStamp, packet) == FALSE

(* frame_buffer.cc:99 *)
TimeStampMismatch(timeStamp, packet) ==
    timeStamp # 0 /\ timeStamp # packet.timestamp

(* frame_buffer.cc:105-107 *)
ExceedsMaxFrameSize(size, packet) ==
    UWord32(size + packet.sizeBytes + StartCodeBytes(packet))
        > kMaxJBFrameSizeBytes

(* frame_buffer.cc:111 *)
MissingPayload(packet) == packet.dataPtr = NULL /\ packet.sizeBytes > 0

(* frame_buffer.cc:115-119 *)
SessionAfterStartSeqNum(si, packet) ==
    IF packet.frameType # kFrameEmpty /\ ~HaveStartSeqNumber(si)
    THEN SetStartSeqNumber(si, packet.seqNum)
    ELSE si

(* StateAfterFirstPacket without the test of the frame type *)
StateAfterFirstPacket_AnyFrameType(state, packet) ==
    IF state = kStateEmpty THEN kStateIncomplete ELSE state

(* frame_buffer.cc:125-136; SetState(kStateIncomplete) is called from
   kStateEmpty, where its assertion holds *)
StateAfterFirstPacket(state, packet) ==
    IF state = kStateEmpty /\ packet.frameType # kFrameEmpty
    THEN kStateIncomplete
    ELSE state

(* frame_buffer.cc:138-139 *)
RequiredSizeBytes(length, packet) ==
    UWord32(length + packet.sizeBytes + StartCodeBytes(packet))

(* frame_buffer.cc:142-145 *)
Increments(requiredSizeBytes) ==
    requiredSizeBytes \div kBufferIncStepSizeBytes
        + (IF requiredSizeBytes % kBufferIncStepSizeBytes > 0 THEN 1 ELSE 0)

(* NewSize growing by the required size, not by whole steps *)
NewSize_ByRequired(size, requiredSizeBytes) ==
    UWord32(size + requiredSizeBytes)

(* frame_buffer.cc:146-147 *)
NewSize(size, requiredSizeBytes) ==
    UWord32(size + Increments(requiredSizeBytes) * kBufferIncStepSizeBytes)

(* frame_buffer.cc:140 *)
MustGrow(size, requiredSizeBytes) == requiredSizeBytes >= size

(* DelegateError without the case -2 *)
DelegateError_IgnoresDuplicate(retVal) ==
    IF retVal = -1 THEN kSizeError ELSE None

(* frame_buffer.cc:158-165: the return value for a negative result of the
   delegate, None when the packet was taken *)
DelegateError(retVal) ==
    IF retVal = -1 THEN kSizeError
    ELSE IF retVal = -2 THEN kDuplicatePacket
    ELSE None

(* StateAfterInsert entering kStateComplete when the session is complete *)
StateAfterInsert_Completes(state, complete) ==
    IF complete THEN kStateComplete
    ELSE IF state = kStateComplete THEN kStateIncomplete ELSE state

(* StateAfterInsert without the retreat from kStateComplete *)
StateAfterInsert_Keeps(state, complete) == state

(* frame_buffer.cc:171-185 *)
StateAfterInsert(state, complete) ==
    IF ~complete /\ state = kStateComplete THEN kStateIncomplete ELSE state

(* LengthAfterInsert without the length so far *)
LengthAfterInsert_Overwrites(length, retVal) == UWord32(retVal)

(* frame_buffer.cc:167 *)
LengthAfterInsert(length, retVal) == UWord32(length + retVal)

(* LatestAfterInsert without the arrival time of the call *)
LatestAfterInsert_Keeps(latest, timeInMs) == latest

(* frame_buffer.cc:169 *)
LatestAfterInsert(latest, timeInMs) == timeInMs

(* frame_buffer.cc:171-185 *)
InsertReturn(complete) == IF complete THEN kCompleteSession ELSE kIncomplete

(* The fields of the frame that InsertPacket reads or writes *)
ThisFrame ==
    [state |-> _state, timeStamp |-> _timeStamp, codec |-> _codec,
     payloadType |-> _payloadType, sessionInfo |-> _sessionInfo,
     buffer |-> _buffer, length |-> _length, latest |-> _latestPacketTimeMs]

(* frame_buffer.cc:83-186: the values InsertPacket leaves in a frame f, and
   returns; the capacity of f is Len(f.buffer) *)
InsertInto(f, packet, timeInMs, fault) ==
    LET same(r) ==
            [ret |-> r, state |-> f.state, timeStamp |-> f.timeStamp,
             codec |-> f.codec, payloadType |-> f.payloadType,
             sessionInfo |-> f.sessionInfo, buffer |-> f.buffer,
             length |-> f.length, latest |-> f.latest]
    IN
    IF StateCheck(f.state) # None THEN same(StateCheck(f.state))
    ELSE IF TimeStampMismatch(f.timeStamp, packet)
    THEN same(kTimeStampError)
    ELSE IF ExceedsMaxFrameSize(Len(f.buffer), packet)
    THEN same(kSizeError)
    ELSE IF MissingPayload(packet) THEN same(kSizeError)
    ELSE
    LET si1 == SessionAfterStartSeqNum(f.sessionInfo, packet)
        payloadType1 == IF packet.dataPtr # NULL THEN packet.payloadType
                        ELSE f.payloadType
        timeStamp1 == IF f.state = kStateEmpty THEN packet.timestamp
                      ELSE f.timeStamp
        codec1 == IF f.state = kStateEmpty THEN packet.codec ELSE f.codec
        state1 == StateAfterFirstPacket(f.state, packet)
        started(r, buffer) ==
            [ret |-> r, state |-> state1, timeStamp |-> timeStamp1,
             codec |-> codec1, payloadType |-> payloadType1,
             sessionInfo |-> si1, buffer |-> buffer,
             length |-> f.length, latest |-> f.latest]
        requiredSizeBytes == RequiredSizeBytes(f.length, packet)
        grow == MustGrow(Len(f.buffer), requiredSizeBytes)
        newSize == NewSize(Len(f.buffer), requiredSizeBytes)
        alloc == VerifyAndAllocate(f.buffer, newSize,
                                   fault # kAllocationFails)
        buffer1 == IF grow THEN alloc.buffer ELSE f.buffer
    IN
    IF grow /\ newSize > kMaxJBFrameSizeBytes
    THEN started(kSizeError, f.buffer)
    ELSE IF grow /\ alloc.status = -1 THEN started(kSizeError, f.buffer)
    ELSE
    LET ins == SessionInsertPacket(si1, packet, buffer1,
                                   fault # kDelegateFails)
        complete == IsSessionComplete(ins.sessionInfo)
    IN
    IF DelegateError(ins.retVal) # None
    THEN started(DelegateError(ins.retVal), buffer1)
    ELSE [ret |-> InsertReturn(complete),
          state |-> StateAfterInsert(state1, complete),
          timeStamp |-> timeStamp1, codec |-> codec1,
          payloadType |-> payloadType1, sessionInfo |-> ins.sessionInfo,
          buffer |-> ins.buffer,
          length |-> LengthAfterInsert(f.length, ins.retVal),
          latest |-> LatestAfterInsert(f.latest, timeInMs)]

(* frame_buffer.cc:83-186: the values InsertPacket leaves and returns *)
InsertPacketResult(packet, timeInMs, fault) ==
    InsertInto(ThisFrame, packet, timeInMs, fault)

InsertPacket(packet, timeInMs, fault) ==
    \E r \in {InsertPacketResult(packet, timeInMs, fault)} :
        /\ ~aborted
        /\ _state' = r.state
        /\ _timeStamp' = r.timeStamp
        /\ _codec' = r.codec
        /\ _payloadType' = r.payloadType
        /\ _sessionInfo' = r.sessionInfo
        /\ _buffer' = r.buffer
        /\ _size' = Len(r.buffer)
        /\ _length' = r.length
        /\ _latestPacketTimeMs' = r.latest
        /\ UNCHANGED <<_nackCount, _frameType, _completeFrame, _missingFrame,
                       _renderTimeMs, _encodedWidth, _encodedHeight, aborted,
                       NDEBUG>>

(* frame_buffer.cc:218-222 *)
IncrementNackCount ==
    /\ ~aborted
    /\ _nackCount < MaxNackCount
    /\ _nackCount' = _nackCount + 1
    /\ UNCHANGED <<_state, _latestPacketTimeMs, _sessionInfo, _length, _size,
                   _buffer, _timeStamp, _payloadType, _codec, _frameType,
                   _completeFrame, _missingFrame, _renderTimeMs,
                   _encodedWidth, _encodedHeight, aborted, NDEBUG>>

(* frame_buffer.cc:236-241 *)
ForceSetHaveLastPacket ==
    /\ ~aborted
    /\ _sessionInfo' = SessionForceSetHaveLastPacket(_sessionInfo)
    /\ UNCHANGED <<_state, _nackCount, _latestPacketTimeMs, _length, _size,
                   _buffer, _timeStamp, _payloadType, _codec, _frameType,
                   _completeFrame, _missingFrame, _renderTimeMs,
                   _encodedWidth, _encodedHeight, aborted, NDEBUG>>

(* ResetFrame without the assignment to _nackCount *)
ResetFrame_KeepsNackCount ==
    /\ _length' = 0
    /\ _timeStamp' = 0
    /\ _sessionInfo' = SessionReset(_sessionInfo)
    /\ _payloadType' = 0
    /\ _latestPacketTimeMs' = -1
    /\ _state' = kStateFree
    /\ EncodedFrameReset
    /\ UNCHANGED _nackCount

(* frame_buffer.cc:243-255: what Reset leaves *)
ResetFrame ==
    /\ _length' = 0
    /\ _timeStamp' = 0
    /\ _sessionInfo' = SessionReset(_sessionInfo)
    /\ _payloadType' = 0
    /\ _nackCount' = 0
    /\ _latestPacketTimeMs' = -1
    /\ _state' = kStateFree
    /\ EncodedFrameReset

Reset ==
    /\ ~aborted
    /\ ResetFrame
    /\ UNCHANGED <<aborted, NDEBUG>>

(* frame_buffer.cc:257-264 *)
MakeSessionDecodable ==
    \E r \in {SessionMakeSessionDecodable(_sessionInfo, _buffer)} :
        /\ ~aborted
        /\ _sessionInfo' = r.sessionInfo
        /\ _buffer' = r.buffer
        /\ _length' = UWord32(_length - r.retVal)
        /\ UNCHANGED <<_state, _nackCount, _latestPacketTimeMs, _size,
                       _timeStamp, _payloadType, _codec, _frameType,
                       _completeFrame, _missingFrame, _renderTimeMs,
                       _encodedWidth, _encodedHeight, aborted, NDEBUG>>

(* SetStateAssertion with kStateComplete asserted from kStateIncomplete
   only *)
SetStateAssertion_CompleteFromIncomplete(state, current) ==
    CASE state = kStateIncomplete ->
            current \in {kStateEmpty, kStateDecoding}
      [] state = kStateComplete -> current = kStateIncomplete
      [] state = kStateEmpty -> current = kStateFree
      [] state = kStateDecoding ->
            current \in {kStateComplete, kStateIncomplete, kStateDecodable}
      [] state = kStateDecodable ->
            current \in {kStateEmpty, kStateIncomplete}
      [] OTHER -> FALSE

(* SetStateAssertion with kStateIncomplete asserted from kStateEmpty only *)
SetStateAssertion_IncompleteFromEmpty(state, current) ==
    CASE state = kStateIncomplete -> current = kStateEmpty
      [] state = kStateComplete ->
            current \in {kStateEmpty, kStateIncomplete, kStateDecodable}
      [] state = kStateEmpty -> current = kStateFree
      [] state = kStateDecoding ->
            current \in {kStateComplete, kStateIncomplete, kStateDecodable}
      [] state = kStateDecodable ->
            current \in {kStateEmpty, kStateIncomplete}
      [] OTHER -> FALSE

(* frame_buffer.cc:285-322: the condition each case asserts *)
SetStateAssertion(state, current) ==
    CASE state = kStateIncomplete ->
            current \in {kStateEmpty, kStateDecoding}
      [] state = kStateComplete ->
            current \in {kStateEmpty, kStateIncomplete, kStateDecodable}
      [] state = kStateEmpty -> current = kStateFree
      [] state = kStateDecoding ->
            current \in {kStateComplete, kStateIncomplete, kStateDecodable}
      [] state = kStateDecodable ->
            current \in {kStateEmpty, kStateIncomplete}
      [] OTHER -> FALSE

(* KeepsComplete without the early return *)
KeepsComplete_Never(state, current) == FALSE

(* frame_buffer.cc:314-319 *)
KeepsComplete(state, current) ==
    state = kStateDecodable /\ current = kStateComplete

(* frame_buffer.cc:332-339 and 394-398 *)
RestructureFrameInformation ==
    \E r \in {SessionPrepareForDecode(_sessionInfo, _buffer)} :
        /\ _length' = r.retVal
        /\ _buffer' = r.buffer
        /\ _frameType' = ConvertFrameType(SessionFrameType(_sessionInfo))
        /\ _completeFrame' = IsSessionComplete(_sessionInfo)
        /\ _missingFrame' = FALSE

(* frame_buffer.cc:266-330 *)
SetState(state) ==
    /\ ~aborted
    /\ UNCHANGED NDEBUG
    /\ IF _state = state
       THEN UNCHANGED <<frame, aborted>>
       ELSE IF state = kStateFree
       THEN ResetFrame /\ UNCHANGED aborted
       ELSE IF state \notin FrameBufferStates
       THEN aborted' = ~NDEBUG /\ UNCHANGED frame
       ELSE IF KeepsComplete(state, _state)
       THEN UNCHANGED <<frame, aborted>>
       ELSE IF ~SetStateAssertion(state, _state) /\ ~NDEBUG
       THEN aborted' = TRUE /\ UNCHANGED frame
       ELSE /\ _state' = state
            /\ IF state = kStateDecoding
               THEN /\ RestructureFrameInformation
                    /\ UNCHANGED <<_nackCount, _latestPacketTimeMs,
                                   _sessionInfo, _size, _timeStamp,
                                   _payloadType, _codec, _renderTimeMs,
                                   _encodedWidth, _encodedHeight>>
               ELSE UNCHANGED <<_nackCount, _latestPacketTimeMs, _sessionInfo,
                                _length, _size, _buffer, _timeStamp,
                                _payloadType, _codec, _frameType,
                                _completeFrame, _missingFrame, _renderTimeMs,
                                _encodedWidth, _encodedHeight>>
            /\ UNCHANGED aborted

(* frame_buffer.cc:357: memcpy of the stored payload *)
CopyPayload(buffer, payloadSize) ==
    [i \in 1..Len(buffer) |->
        IF i <= payloadSize THEN StorageByte ELSE Unwritten]

(* frame_buffer.cc:341-360 *)
ExtractFromStorage(frameFromStorage, allocOk) ==
    \E alloc \in {VerifyAndAllocate(_buffer, frameFromStorage.payloadSize,
                                    allocOk)} :
        /\ ~aborted
        /\ _frameType' = ConvertFrameType(frameFromStorage.frameType)
        /\ _timeStamp' = frameFromStorage.timeStamp
        /\ _payloadType' = frameFromStorage.payloadType
        /\ _encodedWidth' = frameFromStorage.encodedWidth
        /\ _encodedHeight' = frameFromStorage.encodedHeight
        /\ _missingFrame' = frameFromStorage.missingFrame
        /\ _completeFrame' = frameFromStorage.completeFrame
        /\ _renderTimeMs' = frameFromStorage.renderTimeMs
        /\ _codec' = frameFromStorage.codec
        /\ IF alloc.status < 0
           THEN UNCHANGED <<_buffer, _size, _length>>
           ELSE /\ _buffer' = CopyPayload(alloc.buffer,
                                          frameFromStorage.payloadSize)
                /\ _size' = Len(alloc.buffer)
                /\ _length' = frameFromStorage.payloadSize
        /\ UNCHANGED <<_state, _nackCount, _latestPacketTimeMs, _sessionInfo,
                       aborted, NDEBUG>>

Assemble(packets) ==
    \/ \E packet \in packets, timeInMs \in Times, fault \in Faults :
          InsertPacket(packet, timeInMs, fault)
    \/ \E state \in FrameBufferStates \cup {kStateInvalid} : SetState(state)
    \/ Reset
    \/ MakeSessionDecodable
    \/ ForceSetHaveLastPacket

(* Assembly of a frame from packets *)
Next == Assemble(Packets)

Spec == Init /\ [][Next]_vars

(* Every operation, storage extraction and NACK counting included, on the
   packets of PacketsStored *)
NextStored ==
    \/ Assemble(PacketsStored)
    \/ IncrementNackCount
    \/ \E frameFromStorage \in StoredFrames, allocOk \in BOOLEAN :
          ExtractFromStorage(frameFromStorage, allocOk)

SpecStored == Init /\ [][NextStored]_vars

----------------------------------------------------------------------------
(* Properties.  A property of InsertPacket is stated of the values the call
   leaves and returns, InsertPacketResult, for every packet, arrival time
   and failure of a collaborator, in every reachable state. *)

(* The packet was taken into the frame *)
Accepted(r) ==
    /\ StateCheck(_state) = None
    /\ r.ret \in {kIncomplete, kCompleteSession}

(* The frame holds this packet: same sequence number, same bytes *)
Holds(packet) == PacketRecord(packet) \in _sessionInfo.packets

(* C1: InsertPacket on a Free frame returns kStateError and on a Decoding
   frame kIncomplete, for every packet and arrival time, and leaves length,
   state, timestamp, capacity and latest arrival time as they were. *)
InsertRefusedForState ==
    \A packet \in Packets, timeInMs \in Times, fault \in Faults :
        LET r == InsertPacketResult(packet, timeInMs, fault) IN
        _state \in {kStateFree, kStateDecoding} =>
            /\ r.ret = (IF _state = kStateFree THEN kStateError
                        ELSE kIncomplete)
            /\ r.length = _length
            /\ r.state = _state
            /\ r.timeStamp = _timeStamp
            /\ Len(r.buffer) = _size
            /\ r.latest = _latestPacketTimeMs

(* A Decoding frame with content refuses a new packet of its own timestamp *)
InsertRefusedForStateSeen ==
    /\ ~aborted
    /\ _state = kStateDecoding
    /\ _timeStamp # 0
    /\ _length > 0
    /\ \E packet \in Packets, timeInMs \in Times :
          LET r == InsertPacketResult(packet, timeInMs, kNoFault) IN
          /\ packet.timestamp = _timeStamp
          /\ \A q \in _sessionInfo.packets : q.seqNum # packet.seqNum
          /\ r.ret = kIncomplete
          /\ r.length = _length

(* C2: on a frame that is neither Free nor Decoding and has a non-zero
   timestamp, a packet with another timestamp is refused with
   kTimeStampError and the length stays as it was. *)
TimeStampMismatchRefused ==
    \A packet \in Packets, timeInMs \in Times, fault \in Faults :
        LET r == InsertPacketResult(packet, timeInMs, fault) IN
        (/\ _state \notin {kStateFree, kStateDecoding}
         /\ _timeStamp # 0
         /\ packet.timestamp # _timeStamp) =>
            /\ r.ret = kTimeStampError
            /\ r.length = _length

TimeStampMismatchRefusedSeen ==
    /\ ~aborted
    /\ _state = kStateIncomplete
    /\ _timeStamp # 0
    /\ _length > 0
    /\ \E packet \in Packets, timeInMs \in Times :
          LET r == InsertPacketResult(packet, timeInMs, kNoFault) IN
          /\ packet.timestamp # _timeStamp
          /\ r.ret = kTimeStampError
          /\ r.length = _length

(* C2 as it was written: in every reachable state a packet whose timestamp
   differs from the timestamp the frame has latched is refused with
   kTimeStampError, the length unchanged. *)
TimeStampMismatchRefusedInEveryState ==
    \A packet \in Packets, timeInMs \in Times, fault \in Faults :
        LET r == InsertPacketResult(packet, timeInMs, fault) IN
        (_timeStamp # 0 /\ packet.timestamp # _timeStamp) =>
            /\ r.ret = kTimeStampError
            /\ r.length = _length

(* The checks that come before the delegate let the packet through *)
ReachesDelegate(packet, fault) ==
    /\ StateCheck(_state) = None
    /\ ~TimeStampMismatch(_timeStamp, packet)
    /\ ~ExceedsMaxFrameSize(_size, packet)
    /\ ~MissingPayload(packet)
    /\ MustGrow(_size, RequiredSizeBytes(_length, packet)) =>
          /\ NewSize(_size, RequiredSizeBytes(_length, packet))
                <= kMaxJBFrameSizeBytes
          /\ fault # kAllocationFails
    /\ fault # kDelegateFails

(* C3: a packet the frame holds is never taken again and never changes the
   length; the call returns kDuplicatePacket when it gets as far as the
   delegate, and the return value of the check that stops it otherwise. *)
DuplicateNeverTaken ==
    \A packet \in Packets, timeInMs \in Times, fault \in Faults :
        LET r == InsertPacketResult(packet, timeInMs, fault) IN
        Holds(packet) =>
            /\ r.length = _length
            /\ r.sessionInfo.packets = _sessionInfo.packets
            /\ ~Accepted(r)
            /\ ReachesDelegate(packet, fault) => r.ret = kDuplicatePacket

(* A packet held next to another one, after the buffer grew, comes again *)
DuplicateNeverTakenSeen ==
    /\ ~aborted
    /\ _timeStamp # 0
    /\ Cardinality(MediaPackets(_sessionInfo)) >= 2
    /\ _size > kBufferIncStepSizeBytes
    /\ \E packet \in Packets, timeInMs \in Times :
          LET r == InsertPacketResult(packet, timeInMs, kNoFault) IN
          /\ Holds(packet)
          /\ packet.frameType # kFrameEmpty
          /\ packet.timestamp = _timeStamp
          /\ ReachesDelegate(packet, kNoFault)
          /\ r.ret = kDuplicatePacket
          /\ r.length = _length

(* C3 as it was written, for a frame that is being assembled and whose
   collaborators do not fail: a packet the frame holds, offered again with
   the frame's timestamp, returns kDuplicatePacket and leaves the length. *)
DuplicateAlwaysReported ==
    \A packet \in Packets, timeInMs \in Times :
        LET r == InsertPacketResult(packet, timeInMs, kNoFault) IN
        (/\ Holds(packet)
         /\ packet.dataPtr # NULL
         /\ packet.timestamp = _timeStamp
         /\ _state \notin {kStateFree, kStateDecoding}) =>
            /\ r.ret = kDuplicatePacket
            /\ r.length = _length

(* The call gets as far as growing the buffer, and the grown buffer would
   be larger than the maximum frame size *)
GrowthExceedsMax(packet) ==
    /\ StateCheck(_state) = None
    /\ ~TimeStampMismatch(_timeStamp, packet)
    /\ ~ExceedsMaxFrameSize(_size, packet)
    /\ ~MissingPayload(packet)
    /\ MustGrow(_size, RequiredSizeBytes(_length, packet))
    /\ NewSize(_size, RequiredSizeBytes(_length, packet))
          > kMaxJBFrameSizeBytes

(* C4: when InsertPacket has grown the buffer the capacity is a multiple of
   the step and at most the maximum frame size; a call whose growth would
   pass the maximum returns kSizeError and leaves length and content. *)
GrowthInSteps ==
    \A packet \in Packets, timeInMs \in Times, fault \in Faults :
        LET r == InsertPacketResult(packet, timeInMs, fault) IN
        /\ Len(r.buffer) > _size =>
              /\ Len(r.buffer) % kBufferIncStepSizeBytes = 0
              /\ Len(r.buffer) <= kMaxJBFrameSizeBytes
        /\ GrowthExceedsMax(packet) =>
              /\ r.ret = kSizeError
              /\ r.length = _length
              /\ r.buffer = _buffer

(* C5: length <= capacity <= maximum frame size in every state reached by
   InsertPacket, SetState, Reset, MakeSessionDecodable and
   ExtractFromStorage. *)
LengthWithinCapacityWithinMax ==
    /\ _length <= _size
    /\ _size <= kMaxJBFrameSizeBytes

(* What Reset leaves, as C6 names it *)
FreeAndClean ==
    /\ _state = kStateFree
    /\ _length = 0
    /\ _timeStamp = 0
    /\ _nackCount = 0
    /\ _latestPacketTimeMs = -1

(* C6: from every reachable state Reset, called directly or by
   SetState(kStateFree), which calls it for a frame that is not already
   Free, leaves the frame Free with length 0, timestamp 0, nack count 0 and
   the latest arrival time -1. *)
ResetLeavesFreeAndClean ==
    ~ENABLED ((Reset \/ (_state # kStateFree /\ SetState(kStateFree)))
                 /\ ~FreeAndClean')

(* A Complete frame with content and a nack count, about to be reset *)
ResetLeavesFreeAndCleanSeen ==
    /\ _state = kStateComplete
    /\ _length > 0
    /\ _timeStamp # 0
    /\ _nackCount > 0
    /\ _latestPacketTimeMs # -1
    /\ ENABLED (Reset /\ FreeAndClean')
    /\ ENABLED (SetState(kStateFree) /\ FreeAndClean')

(* C7: the first packet taken after activation sets the frame's timestamp,
   which then stays: a packet that is taken carries the timestamp the frame
   has after the call, and that is the timestamp the frame had before the
   call when it already held a packet.  Stated for the build whose
   assertions are on, where the frame only follows the documented
   transitions. *)
TimeStampOfEveryAcceptedPacket ==
    \A packet \in Packets, timeInMs \in Times, fault \in Faults :
        LET r == InsertPacketResult(packet, timeInMs, fault) IN
        (~NDEBUG /\ Accepted(r)) =>
            /\ r.timeStamp = packet.timestamp
            /\ _sessionInfo.packets # {} => r.timeStamp = _timeStamp

(* C8: on an Empty frame a control packet that is taken leaves the state
   Empty and sets timestamp and codec from the packet; a packet of another
   frame type that is taken moves the state to Incomplete and adds to the
   length the bytes written for it. *)
FirstPacketOnEmpty ==
    \A packet \in Packets, timeInMs \in Times, fault \in Faults :
        LET r == InsertPacketResult(packet, timeInMs, fault) IN
        (_state = kStateEmpty /\ Accepted(r)) =>
            IF packet.frameType = kFrameEmpty
            THEN /\ r.state = kStateEmpty
                 /\ r.timeStamp = packet.timestamp
                 /\ r.codec = packet.codec
                 /\ r.length = _length
            ELSE /\ r.state = kStateIncomplete
                 /\ r.length = _length + BytesWritten(packet)

(* An Empty frame that took a control packet takes a media packet of the
   same timestamp *)
FirstPacketOnEmptySeen ==
    /\ ~aborted
    /\ _state = kStateEmpty
    /\ _timeStamp # 0
    /\ _codec = kVideoCodecH264
    /\ _length = 0
    /\ \E q \in _sessionInfo.packets : q.frameType = kFrameEmpty
    /\ \E packet \in Packets, timeInMs \in Times :
          LET r == InsertPacketResult(packet, timeInMs, kNoFault) IN
          /\ packet.frameType # kFrameEmpty
          /\ packet.timestamp = _timeStamp
          /\ Accepted(r)
          /\ r.state = kStateIncomplete
          /\ r.length = packet.sizeBytes + StartCodeBytes(packet)

(* C9: SetState(kStateDecodable) leaves a frame whose state is Complete in
   Complete, and moves an Incomplete frame to Decodable, whether or not its
   session is complete. *)
DecodableKeepsOnlyComplete ==
    /\ _state = kStateComplete =>
          ~ENABLED (SetState(kStateDecodable) /\ _state' # kStateComplete)
    /\ _state = kStateIncomplete =>
          ~ENABLED (SetState(kStateDecodable) /\ _state' # kStateDecodable)

(* An Incomplete frame with a complete session becomes Decodable *)
DecodableKeepsOnlyCompleteSeen ==
    /\ _state = kStateIncomplete
    /\ IsSessionComplete(_sessionInfo)
    /\ ~NDEBUG
    /\ ENABLED (SetState(kStateDecodable) /\ _state' = kStateDecodable)

(* C9 as it was written: SetState(kStateDecodable) on an Incomplete frame
   whose session is complete results in state Complete. *)
DecodableOnCompleteSessionIsComplete ==
    (_state = kStateIncomplete /\ IsSessionComplete(_sessionInfo)) =>
        ~ENABLED (SetState(kStateDecodable) /\ _state' # kStateComplete)

(* C10: a packet taken by a Complete frame that leaves the session not
   complete returns kIncomplete and moves the state to Incomplete; taken by
   an Incomplete or Decodable frame it leaves the state. *)
CompleteRetreats ==
    \A packet \in Packets, timeInMs \in Times, fault \in Faults :
        LET r == InsertPacketResult(packet, timeInMs, fault) IN
        (/\ Accepted(r)
         /\ ~IsSessionComplete(r.sessionInfo)
         /\ _state \in {kStateComplete, kStateIncomplete, kStateDecodable})
        => /\ r.ret = kIncomplete
           /\ r.state = (IF _state = kStateComplete THEN kStateIncomplete
                         ELSE _state)

(* A Complete frame with a complete session takes a packet that opens a gap *)
CompleteRetreatsSeen ==
    /\ ~aborted
    /\ ~NDEBUG
    /\ _state = kStateComplete
    /\ IsSessionComplete(_sessionInfo)
    /\ \E packet \in Packets, timeInMs \in Times :
          LET r == InsertPacketResult(packet, timeInMs, kNoFault) IN
          /\ Accepted(r)
          /\ ~IsSessionComplete(r.sessionInfo)
          /\ r.ret = kIncomplete
          /\ r.state = kStateIncomplete

(* The transition table does not allow this request on the frame as it is:
   it is not a reset, not a request for the state the frame is in, not the
   request for Decodable that a Complete frame ignores, and the assertion
   of its case fails (no case for a value that is not a state). *)
NotAllowed(state) ==
    /\ state \notin {kStateFree, _state}
    /\ ~KeepsComplete(state, _state)
    /\ ~SetStateAssertion(state, _state)

(* C11: a SetState request that the transition table does not allow never
   changes the frame's state. *)
IllegalRequestKeepsState ==
    \A state \in FrameBufferStates \cup {kStateInvalid} :
        NotAllowed(state) =>
            ~ENABLED (SetState(state) /\ _state' # _state)

(* C12: an InsertPacket call that returns kSizeError leaves state,
   timestamp, codec, payload type, start sequence number, length and latest
   arrival time as they were before the call. *)
SizeErrorLeavesFrame ==
    \A packet \in Packets, timeInMs \in Times, fault \in Faults :
        LET r == InsertPacketResult(packet, timeInMs, fault) IN
        r.ret = kSizeError =>
            /\ r.state = _state
            /\ r.timeStamp = _timeStamp
            /\ r.codec = _codec
            /\ r.payloadType = _payloadType
            /\ r.sessionInfo.startSeqNum = _sessionInfo.startSeqNum
            /\ r.length = _length
            /\ r.latest = _latestPacketTimeMs

(* Packets of one timestamp, each with a sequence number of its own, in
   the order of their sequence numbers *)
InOrder ==
    UNION {{o \in [1..n -> Packets] :
              /\ \A i \in 1..n : o[i].timestamp = o[1].timestamp
              /\ \A i \in 1..(n - 1) : o[i].seqNum < o[i + 1].seqNum} :
           n \in 0..MaxSeqNum}

(* The orders of n packets *)
Orders(n) ==
    {pi \in [1..n -> 1..n] : \A i, j \in 1..n : i # j => pi[i] # pi[j]}

Reordered(o, pi) == [i \in 1..Len(o) |-> o[pi[i]]]

(* InsertPacket of each packet of o, one after the other, into the frame f,
   with no failure of a collaborator: the frame left, and whether every
   packet was taken *)
RECURSIVE InsertAll(_, _)
InsertAll(f, o) ==
    IF o = <<>> THEN [frame |-> f, accepted |-> TRUE]
    ELSE LET r == InsertInto(f, Head(o), MaxTimeMs, kNoFault)
             rest == InsertAll(r, Tail(o))
         IN  [frame |-> rest.frame,
              accepted |-> /\ r.ret \in {kIncomplete, kCompleteSession}
                           /\ rest.accepted]

(* Length, content and completeness of a frame *)
Outcome(f) ==
    [length |-> f.length,
     content |-> [i \in 1..Len(f.buffer) |->
                     IF i <= f.length THEN f.buffer[i] ELSE Unwritten],
     complete |-> IsSessionComplete(f.sessionInfo)]

(* The frame was activated and holds no packet yet *)
Activated ==
    /\ ~aborted
    /\ _state = kStateEmpty
    /\ _sessionInfo.packets = {}

(* C13: two orders of the same packets of one timestamp, all with different
   sequence numbers, in both of which every packet is taken by an activated
   frame, leave the same length, the same content and the same
   completeness. *)
OrderIndependentWhenAllTaken ==
    Activated =>
        \A o \in InOrder :
            LET taken == {r \in {InsertAll(ThisFrame, Reordered(o, pi)) :
                                    pi \in Orders(Len(o))} : r.accepted}
            IN  \A r1, r2 \in taken :
                    /\ Outcome(r1.frame).length = Outcome(r2.frame).length
                    /\ Outcome(r1.frame).complete = Outcome(r2.frame).complete
                    /\ \A i \in 1..r1.frame.length :
                          r1.frame.buffer[i] = r2.frame.buffer[i]

(* Three packets, the last of them ending the frame, are taken in two
   different orders *)
OrderIndependentWhenAllTakenSeen ==
    /\ Activated
    /\ \E o \in InOrder, pi \in Orders(MaxSeqNum) :
          /\ Len(o) = MaxSeqNum
          /\ Reordered(o, pi) # o
          /\ InsertAll(ThisFrame, o).accepted
          /\ InsertAll(ThisFrame, Reordered(o, pi)).accepted
          /\ IsSessionComplete(InsertAll(ThisFrame, o).frame.sessionInfo)
          /\ InsertAll(ThisFrame, o).frame.length >= 2 * MaxPacketSize

(* C13 as it was written: inserting such packets into an activated frame
   in any order leaves the same length and the same completeness as
   inserting them in the order of their sequence numbers. *)
OrderIndependent ==
    Activated =>
        \A o \in InOrder : \A pi \in Orders(Len(o)) :
            LET r1 == InsertAll(ThisFrame, o).frame
                r2 == InsertAll(ThisFrame, Reordered(o, pi)).frame
            IN  /\ r1.length = r2.length
                /\ IsSessionComplete(r1.sessionInfo)
                      = IsSessionComplete(r2.sessionInfo)

(* C14: InsertPacket never changes the state of a Decoding frame;
   SetState(kStateIncomplete) moves it to Incomplete, as its assertion
   allows, and SetState(kStateFree) to Free; with the assertions on, no
   other SetState request changes its state. *)
DecodingLeftOnlyByIncompleteOrFree ==
    (_state = kStateDecoding /\ ~aborted) =>
        /\ \A packet \in Packets, timeInMs \in Times, fault \in Faults :
              InsertPacketResult(packet, timeInMs, fault).state
                  = kStateDecoding
        /\ ENABLED (SetState(kStateIncomplete)
                       /\ _state' = kStateIncomplete /\ ~aborted')
        /\ ENABLED (SetState(kStateFree) /\ _state' = kStateFree)
        /\ ~NDEBUG =>
              \A state \in {kStateEmpty, kStateComplete, kStateDecodable,
                            kStateInvalid} :
                  ~ENABLED (SetState(state) /\ _state' # kStateDecoding)

(* A frame with content reached Decoding with the assertions on *)
DecodingLeftOnlyByIncompleteOrFreeSeen ==
    /\ _state = kStateDecoding
    /\ ~aborted
    /\ ~NDEBUG
    /\ _length > 0
    /\ ENABLED (SetState(kStateIncomplete) /\ _state' = kStateIncomplete)

(* C14 as it was written, for the build whose assertions are on: from a
   Decoding frame no InsertPacket and no SetState call leads to a state
   other than Decoding and Free. *)
DecodingIsTerminal ==
    (_state = kStateDecoding /\ ~aborted /\ ~NDEBUG) =>
        /\ \A packet \in Packets, timeInMs \in Times, fault \in Faults :
              InsertPacketResult(packet, timeInMs, fault).state
                  = kStateDecoding
        /\ \A state \in FrameBufferStates \cup {kStateInvalid} :
              ~ENABLED (SetState(state)
                           /\ _state' \notin {kStateDecoding, kStateFree})

(* C15: InsertPacket never moves the frame into kStateComplete; a call
   that returns kCompleteSession leaves the state as it was, apart from
   the step from kStateEmpty to kStateIncomplete of the same call; the
   only changes of state InsertPacket makes are kStateEmpty to
   kStateIncomplete and kStateComplete to kStateIncomplete. *)
InsertNeverCompletes ==
    \A packet \in Packets, timeInMs \in Times, fault \in Faults :
        LET r == InsertPacketResult(packet, timeInMs, fault)
        IN  /\ r.state = kStateComplete => _state = kStateComplete
            /\ r.state # _state =>
                  /\ _state \in {kStateEmpty, kStateComplete}
                  /\ r.state = kStateIncomplete
            /\ r.ret = kCompleteSession =>
                  \/ r.state = _state
                  \/ _state = kStateEmpty /\ r.state = kStateIncomplete

(* A packet completes the session of an Incomplete frame *)
InsertNeverCompletesSeen ==
    /\ ~aborted
    /\ _state = kStateIncomplete
    /\ \E packet \in Packets, timeInMs \in Times :
          LET r == InsertPacketResult(packet, timeInMs, kNoFault)
          IN  /\ r.ret = kCompleteSession
              /\ r.state = kStateIncomplete
              /\ IsSessionComplete(r.sessionInfo)

(* The packet gets as far as the check of the maximum frame size *)
ReachesSizeCheck(packet) ==
    /\ ~aborted
    /\ StateCheck(_state) = None
    /\ ~TimeStampMismatch(_timeStamp, packet)

(* C16: a packet that passes the checks of state and timestamp is refused
   by the check of the maximum frame size exactly when the occupied size
   plus the size of the packet plus the length of its start code exceeds
   the maximum frame size. *)
MaxSizeCheckOnOccupiedSize ==
    \A packet \in Packets :
        ReachesSizeCheck(packet) =>
            (ExceedsMaxFrameSize(_size, packet)
                <=> _length + packet.sizeBytes + StartCodeBytes(packet)
                        > kMaxJBFrameSizeBytes)

(* The call gets as far as the growth of the buffer *)
ReachesGrowth(packet) ==
    /\ ReachesSizeCheck(packet)
    /\ ~ExceedsMaxFrameSize(_size, packet)
    /\ ~MissingPayload(packet)

(* capacity + ceil(required / step) * step *)
GrownCapacity(required) ==
    _size + ((required + kBufferIncStepSizeBytes - 1)
                \div kBufferIncStepSizeBytes) * kBufferIncStepSizeBytes

(* C17: in an InsertPacket call that gets as far as the growth, with
   required = length + packet size + start code length: the capacity is
   unchanged when required < capacity, and becomes capacity +
   ceil(required / step) * step when required >= capacity, that value is
   at most the maximum frame size and the allocation succeeds; the
   capacity never decreases across InsertPacket or SetState to a state
   other than kStateFree. *)
CapacityGrowsByWholeSteps ==
    /\ \A packet \in Packets, timeInMs \in Times, fault \in Faults :
          LET r == InsertPacketResult(packet, timeInMs, fault)
              required == _length + packet.sizeBytes
                              + StartCodeBytes(packet)
          IN  /\ Len(r.buffer) >= _size
              /\ (ReachesGrowth(packet) /\ required < _size) =>
                    Len(r.buffer) = _size
              /\ (/\ ReachesGrowth(packet)
                  /\ required >= _size
                  /\ GrownCapacity(required) <= kMaxJBFrameSizeBytes
                  /\ fault # kAllocationFails) =>
                    Len(r.buffer) = GrownCapacity(required)
    /\ \A state \in (FrameBufferStates \cup {kStateInvalid})
                        \ {kStateFree} :
          ~ENABLED (SetState(state) /\ _size' < _size)

(* A frame with content whose capacity is one step: a packet that needs
   exactly the capacity grows it by one step, and the next packet, which
   needs less than the grown capacity, leaves it *)
CapacityGrowsByWholeStepsSeen ==
    /\ ~aborted
    /\ _length > 0
    /\ _size = kBufferIncStepSizeBytes
    /\ \E p1, p2 \in Packets :
          LET r1 == InsertPacketResult(p1, MaxTimeMs, kNoFault)
              r2 == InsertInto(r1, p2, MaxTimeMs, kNoFault)
          IN  /\ ReachesGrowth(p1)
              /\ _length + p1.sizeBytes + StartCodeBytes(p1) = _size
              /\ Len(r1.buffer) = 2 * kBufferIncStepSizeBytes
              /\ r1.length = _size
              /\ r2.length > r1.length
              /\ r2.length < Len(r1.buffer)
              /\ Len(r2.buffer) = Len(r1.buffer)

(* The fields ExtractFromStorage writes *)
Extracted ==
    <<_frameType, _timeStamp, _payloadType, _encodedWidth, _encodedHeight,
      _missingFrame, _completeFrame, _renderTimeMs, _codec, _length,
      _buffer, _size>>

(* C18: an ExtractFromStorage call that fails to obtain the capacity for
   the payload leaves frame type, timestamp, payload type, dimensions,
   missing and complete flags, render time, codec, length and buffer as
   they were. *)
ExtractFailureLeavesFrame ==
    \A frameFromStorage \in StoredFrames :
        frameFromStorage.payloadSize > _size =>
            ~ENABLED (/\ ExtractFromStorage(frameFromStorage, FALSE)
                      /\ Extracted' # Extracted)

(* C19: an InsertPacket call in which the delegate took the packet
   (kCompleteSession, or kIncomplete from a state other than
   kStateDecoding) sets the latest arrival time to the arrival time of the
   call and adds the bytes the delegate wrote to the length; every other
   call leaves the latest arrival time and the length as they were. *)
LatestAndLengthFollowAcceptance ==
    \A packet \in Packets, timeInMs \in Times, fault \in Faults :
        LET r == InsertPacketResult(packet, timeInMs, fault)
        IN  IF r.ret = kCompleteSession
               \/ (r.ret = kIncomplete /\ _state # kStateDecoding)
            THEN /\ r.latest = timeInMs
                 /\ r.length = _length + BytesWritten(packet)
                 /\ PacketRecord(packet) \in r.sessionInfo.packets
            ELSE /\ r.ret \in {kStateError, kTimeStampError, kSizeError,
                               kDuplicatePacket, kIncomplete}
                 /\ r.latest = _latestPacketTimeMs
                 /\ r.length = _length
                 /\ r.sessionInfo.packets = _sessionInfo.packets

(* A frame that has taken a packet, with an arrival time that differs from
   the latest one: a new packet is taken, and the packet it holds and a
   packet whose allocation fails are refused *)
LatestAndLengthFollowAcceptanceSeen ==
    /\ ~aborted
    /\ _length > 0
    /\ \E packet \in Packets, timeInMs \in Times :
          LET r == InsertPacketResult(packet, timeInMs, kNoFault)
          IN  /\ r.ret \in {kIncomplete, kCompleteSession}
              /\ _state # kStateDecoding
              /\ r.length > _length
              /\ r.latest = timeInMs
    /\ \E packet \in Packets, timeInMs \in Times :
          /\ Holds(packet)
          /\ InsertPacketResult(packet, timeInMs, kNoFault).ret
                = kDuplicatePacket
    /\ \E packet \in Packets, timeInMs \in Times, fault \in Faults :
          /\ fault # kNoFault
          /\ InsertPacketResult(packet, timeInMs, fault).ret = kSizeError

(* C20: whenever InsertPacket returns kCompleteSession it leaves the frame
   in kStateEmpty, kStateIncomplete, kStateDecodable or kStateComplete;
   from each of these SetState(kStateComplete) passes its assertion and
   ends in kStateComplete; and the SetState(kStateIncomplete) that
   InsertPacket calls is called where its assertion holds. *)
CompleteSessionCanBeMarked ==
    /\ \A packet \in Packets, timeInMs \in Times, fault \in Faults :
          LET r == InsertPacketResult(packet, timeInMs, fault)
          IN  /\ r.ret = kCompleteSession =>
                    /\ r.state \in {kStateEmpty, kStateIncomplete,
                                    kStateDecodable, kStateComplete}
                    /\ \/ r.state = kStateComplete
                       \/ SetStateAssertion(kStateComplete, r.state)
              /\ StateAfterFirstPacket(_state, packet) # _state =>
                    SetStateAssertion(kStateIncomplete, _state)
    /\ (/\ ~aborted
        /\ _state \in {kStateEmpty, kStateIncomplete, kStateDecodable,
                       kStateComplete}) =>
          ENABLED (/\ SetState(kStateComplete)
                   /\ _state' = kStateComplete
                   /\ ~aborted')

(* With the assertions on, the first media packet of an Empty frame
   completes the session: the frame becomes Incomplete, from where
   SetState(kStateComplete) is asserted *)
CompleteSessionCanBeMarkedSeen ==
    /\ ~aborted
    /\ ~NDEBUG
    /\ _state = kStateEmpty
    /\ \E packet \in Packets, timeInMs \in Times :
          LET r == InsertPacketResult(packet, timeInMs, kNoFault)
          IN  /\ r.ret = kCompleteSession
              /\ r.state = kStateIncomplete
              /\ SetStateAssertion(kStateComplete, r.state)

====
